---- MODULE Spec2Model ----
(***************************************************************************)
(* A model of migrator-cli.                                                *)
(*                                                                         *)
(*   Spec       the single-database command line of src/src/cli.ts         *)
(*              (add, apply-scripts, clean, drop, create)                  *)
(*   SpecMulti  the multi-database command line of src/unnamed/part_001    *)
(*              (apply-scripts, clean, drop, create over several --db)     *)
(*   SpecWrap   wrapMigration of src/unnamed/part_000                      *)
(*                                                                         *)
(* JavaScript runs a handler synchronously up to its next await, so one    *)
(* action is one such segment: the settling of the awaited external call   *)
(* together with the code that runs up to the next await.  Every external  *)
(* call is recorded in the log `calls`, with its settling.                 *)
(***************************************************************************)
EXTENDS Naturals, Sequences, FiniteSets, TLC

VARIABLES
  program,     \* which command line runs: "cli" (src/src/cli.ts) or "multi" (part_001)
  dbs,         \* the configuration map: database name -> DatabaseConfig
  argv,        \* the parsed command line
  pc,          \* position of the command: "parse", "validated", "handler", "rejected"
  result,      \* the promise the handler returned: <<"pending">>, <<"resolved">>, <<"rejected", db, op>>
  queue,       \* apply: the migration tasks not yet started (database names)
  cur,         \* apply: the database whose task runs
  tpc,         \* apply: position of the running task
  ctxP,        \* apply: the promise createContext returned: "none", "pending", "settled"
  tryErr,      \* apply: the exception in flight out of the try block, or NoError
  cleanPc,     \* clean/drop/create: database name -> position of its task
  calls,       \* log of the external calls: started, and settled
  wrap         \* wrapMigration: hooks, migration, the wrapped object and the call in progress

vars == <<program, dbs, argv, pc, result, queue, cur, tpc, ctxP, tryErr, cleanPc, calls, wrap>>

Undefined == "undefined"
NoError == <<>>

\* ------------------------------------------------------------ bounds

\* the longest list of --db flags of one command line (part_001)
MaxDbFlags == 2
\* how many times a wrapped migration is called in one behaviour
MaxWrapCalls == 2

\* ------------------------------------------------------------ configuration

\* Object.keys(dbs), in the order of the configuration map
DbNames == <<"A", "B">>
DbSet == {DbNames[i] : i \in 1..Len(DbNames)}

\* environments a command line may name
Envs == {"staging", "prod", "demo"}
\* envOpt.choices of part_001
EnvChoices == {"staging", "prod", "demo"}

Range(s) == {s[i] : i \in 1..Len(s)}

\* the DatabaseConfig type: the fields the command lines read.
\* destroyStorage is optional; defaultEnvironment is optional and, at run time,
\* any string.  The script formats are fixed per configuration here.
DatabaseConfigs ==
  [ supportedEnvironments  : {<<"staging">>, <<"staging", "demo">>},
    defaultEnvironment     : {Undefined, "staging", "demo"},
    destroyStorage         : BOOLEAN,
    supportedScriptFormats : {<<"js", "sql">>},
    defaultScriptFormat    : {"js"} ]

\* the configurations of part_001, which reads neither environment field
DatabaseConfigsMulti ==
  {c \in DatabaseConfigs :
      /\ c.supportedEnvironments = <<"staging", "demo">>
      /\ c.defaultEnvironment = Undefined}

\* the configurations the add command is checked with: the fields it reads, the
\* script formats varying.  The configuration is a JavaScript module, so a
\* defaultScriptFormat may be missing at run time although the type requires it.
DatabaseConfigsAdd ==
  [ supportedEnvironments  : {<<"staging">>, <<"staging", "demo">>},
    defaultEnvironment     : {Undefined, "staging"},
    destroyStorage         : {FALSE},
    supportedScriptFormats : {<<"js", "sql">>, <<"sql">>},
    defaultScriptFormat    : {Undefined, "js", "sql"} ]

\* scriptTypes of script-generator
scriptTypes == {"migration", "seed"}
Targets == {"remaining", "next", "only", "until"}
ScriptNames == {"s1"}

\* ------------------------------------------------------------ script names
\* A script's file name is a sequence of tokens: timestamp prefix, type marker,
\* environment marker (seeds only), free-form name, extension.

\* the Namer: the name without its extension; the prefix is the placeholder that
\* file creation replaces by a timestamp
nameScript(kind, environment, freeformName) ==
  <<"TIMESTAMP", kind>>
    \o (IF kind = "seed" THEN <<environment>> ELSE <<>>)
    \o <<freeformName>>

\* a selector that lets every well-formed seed run
shouldRunAnySeed(targetEnvironment, supportedFormats, filePath) ==
  /\ Len(filePath) >= 2
  /\ filePath[Len(filePath)] \in Range(supportedFormats)
  /\ \/ Len(filePath) = 4 /\ filePath[2] = "migration"
     \/ Len(filePath) = 5 /\ filePath[2] = "seed"

\* the Selector: the extension is supported, and the name before it is a
\* migration's, or a seed's whose environment marker is the target environment;
\* any other file name is excluded
shouldRun(targetEnvironment, supportedFormats, filePath) ==
  /\ Len(filePath) >= 2
  /\ filePath[Len(filePath)] \in Range(supportedFormats)
  /\ \/ Len(filePath) = 4 /\ filePath[2] = "migration"
     \/ /\ Len(filePath) = 5 /\ filePath[2] = "seed"
        /\ filePath[3] = targetEnvironment

\* the files a scripts directory may hold, by the name the log gives them
ScriptFiles == {"m1", "seedStaging", "seedDemo", "readme", "m2"}

FilePath(f) ==
  CASE f = "m1"          -> <<"2020", "migration", "s1", "js">>
    [] f = "seedStaging" -> <<"2021", "seed", "staging", "s1", "sql">>
    [] f = "seedDemo"    -> <<"2022", "seed", "demo", "s1", "js">>
    [] f = "readme"      -> <<"readme", "js">>
    [] f = "m2"          -> <<"2023", "migration", "s1", "ts">>

\* the listings the scripts directory is found with
ScriptsDirectories ==
  { <<"m1", "seedStaging", "seedDemo", "readme", "m2">>,
    <<"seedDemo", "m1">> }

\* the glob pattern: the files of the directory with a supported extension
GlobMatch(supportedScriptFormats, directory) ==
  SelectSeq(directory,
            LAMBDA f : FilePath(f)[Len(FilePath(f))] \in Range(supportedScriptFormats))

\* ------------------------------------------------------------ the log

Ev(d, op, ev, arg) == [db |-> d, op |-> op, ev |-> ev, arg |-> arg]
Context(d) == <<"context", d>>
Storage(d) == <<"storage", d>>

IsCall(e) == e.ev = "call"
IsSettle(e) == e.ev \in {"ok", "throw"}

\* indices of the log where (d, op) was called
CallsOf(d, op) == {i \in 1..Len(calls) : calls[i].db = d /\ calls[i].op = op /\ IsCall(calls[i])}
SettlesOf(d, op) == {i \in 1..Len(calls) : calls[i].db = d /\ calls[i].op = op /\ IsSettle(calls[i])}
ThrowsOf(d, op) == {i \in SettlesOf(d, op) : calls[i].ev = "throw"}
OksOf(d, op) == {i \in SettlesOf(d, op) : calls[i].ev = "ok"}

\* ------------------------------------------------------------ src/src/cli.ts: validation

\* argv.env ?? db.defaultEnvironment
getEnv(opts) ==
  IF opts.env # Undefined THEN opts.env ELSE dbs[opts.db].defaultEnvironment

\* db.supportedEnvironments.includes(env)
EnvSupported(db, env) == env \in Range(db.supportedEnvironments)

\* the options yargs itself enforces: demand, choices
YargsValid(opts) ==
  /\ opts.db \in DbSet
  /\ opts.cmd \in {"apply", "clean", "drop", "create"} => opts.env # Undefined
  /\ opts.cmd = "apply" => opts.target \in Targets
  /\ opts.cmd = "add" =>
       /\ opts.type \in scriptTypes
       /\ opts.name # Undefined
       /\ opts.format = Undefined
            \/ \E d \in DbSet : opts.format \in Range(dbs[d].supportedScriptFormats)

\* an add check without its format test
AddCheckNoFormat(opts) ==
  /\ ~(opts.type = "seed" /\ opts.env = Undefined)
  /\ ~(opts.type = "migration" /\ opts.env # Undefined)
  /\ getEnv(opts) # Undefined => EnvSupported(dbs[opts.db], getEnv(opts))

AddCheck(opts) ==
  /\ ~(opts.type = "seed" /\ opts.env = Undefined)
  /\ ~(opts.type = "migration" /\ opts.env # Undefined)
  /\ getEnv(opts) # Undefined => EnvSupported(dbs[opts.db], getEnv(opts))
  /\ opts.format # Undefined => opts.format \in Range(dbs[opts.db].supportedScriptFormats)

NeedsSpecificScript(target) == target = "only" \/ target = "until"

\* a JavaScript string in a condition: undefined and the empty string are falsy
Truthy(str) == str # Undefined /\ str # ""

\* a check that only forbids the name
TargetNameCheckForbidOnly(target, name) ==
  ~(~NeedsSpecificScript(target) /\ Truthy(name))

TargetNameCheck(target, name) ==
  /\ ~(~NeedsSpecificScript(target) /\ Truthy(name))
  /\ ~(NeedsSpecificScript(target) /\ ~Truthy(name))

ApplyCheck(opts) ==
  /\ TargetNameCheck(opts.target, opts.name)
  /\ EnvSupported(dbs[opts.db], getEnv(opts))

CleanCheck(opts) == EnvSupported(dbs[opts.db], getEnv(opts))

\* a drop that validates nothing, as a builder without its check would
DropCheckNone(opts) == TRUE

DropCheck(opts) == EnvSupported(dbs[opts.db], getEnv(opts))

CreateCheck(opts) == EnvSupported(dbs[opts.db], getEnv(opts))

Check(opts) ==
  CASE opts.cmd = "add"    -> AddCheck(opts)
    [] opts.cmd = "apply"  -> ApplyCheck(opts)
    [] opts.cmd = "clean"  -> CleanCheck(opts)
    [] opts.cmd = "drop"   -> DropCheck(opts)
    [] opts.cmd = "create" -> CreateCheck(opts)

\* ------------------------------------------------------------ part_001: validation

YargsValidMulti(opts) ==
  /\ IF opts.cmd = "add"
     THEN /\ opts.db \in DbSet
          /\ opts.type \in scriptTypes
          /\ opts.name # Undefined
          /\ opts.format = Undefined
               \/ \E d \in DbSet : opts.format \in Range(dbs[d].supportedScriptFormats)
     ELSE Range(opts.db) \subseteq DbSet /\ opts.db # <<>>
  /\ opts.env = Undefined \/ opts.env \in EnvChoices
  /\ opts.cmd \in {"apply", "clean", "drop"} => opts.env # Undefined
  /\ opts.cmd = "apply" => opts.target \in Targets

\* part_001's add check: no test of the database's supportedEnvironments
AddCheckMulti(opts) ==
  /\ ~(opts.type = "seed" /\ ~Truthy(opts.env))
  /\ ~(opts.type = "migration" /\ Truthy(opts.env))
  /\ opts.format # Undefined => opts.format \in Range(dbs[opts.db].supportedScriptFormats)

CheckMulti(opts) ==
  CASE opts.cmd = "add"    -> AddCheckMulti(opts)
    [] opts.cmd = "apply"  -> TargetNameCheck(opts.target, opts.name)
    [] opts.cmd = "clean"  -> opts.env # "prod"
    [] opts.cmd = "drop"   -> opts.env # "prod"
    [] opts.cmd = "create" -> TRUE

\* ------------------------------------------------------------ initial states

Argvs ==
  [cmd : {"add"}, db : DbSet, env : Envs \cup {Undefined}, target : {Undefined},
   name : ScriptNames, type : scriptTypes, format : {Undefined, "js"}]
  \cup
  [cmd : {"apply"}, db : DbSet, env : Envs \cup {Undefined}, target : Targets,
   name : ScriptNames \cup {Undefined, ""}, type : {Undefined}, format : {Undefined}]
  \cup
  [cmd : {"clean", "drop", "create"}, db : DbSet, env : Envs \cup {Undefined},
   target : {Undefined}, name : {Undefined}, type : {Undefined}, format : {Undefined}]

\* the add command lines; "ts" is a format no database supports
ArgvsAdd ==
  [cmd : {"add"}, db : DbSet, env : Envs \cup {Undefined}, target : {Undefined},
   name : ScriptNames, type : scriptTypes, format : {Undefined, "js", "sql", "ts"}]

DbFlagLists == UNION {[1..n -> DbSet] : n \in 1..MaxDbFlags}

ArgvsMulti ==
  [cmd : {"add"}, db : DbSet, env : {Undefined, "staging", "prod"}, target : {Undefined},
   name : ScriptNames, type : scriptTypes, format : {Undefined, "js"}]
  \cup
  [cmd : {"apply"}, db : DbFlagLists, env : {"staging", "prod"}, target : Targets,
   name : ScriptNames \cup {Undefined, ""}, type : {Undefined}, format : {Undefined}]
  \cup
  [cmd : {"clean", "drop", "create"}, db : DbFlagLists, env : {"staging", "prod"},
   target : {Undefined}, name : {Undefined}, type : {Undefined}, format : {Undefined}]

NoWrap == <<>>

InitCommon ==
  /\ pc = "parse"
  /\ result = <<"pending">>
  /\ queue = <<>>
  /\ cur = Undefined
  /\ tpc = "idle"
  /\ ctxP = "none"
  /\ tryErr = NoError
  /\ cleanPc = [d \in DbSet |-> "idle"]
  /\ calls = <<>>
  /\ wrap = NoWrap

Init ==
  /\ program = "cli"
  /\ dbs \in [DbSet -> DatabaseConfigs]
  /\ argv \in Argvs
  /\ InitCommon

InitAdd ==
  /\ program = "cli"
  /\ dbs \in [DbSet -> DatabaseConfigsAdd]
  /\ argv \in ArgvsAdd
  /\ InitCommon

InitMulti ==
  /\ program = "multi"
  /\ dbs \in [DbSet -> DatabaseConfigsMulti]
  /\ argv \in ArgvsMulti
  /\ InitCommon

\* ------------------------------------------------------------ validation

Reject == <<"rejected", "yargs", "validation">>

\* yargs parses the command line and runs the builder's check before the handler
Validate ==
  /\ pc = "parse" /\ program = "cli"
  /\ IF YargsValid(argv) /\ Check(argv)
     THEN pc' = "validated" /\ result' = result
     ELSE pc' = "rejected" /\ result' = Reject
  /\ UNCHANGED <<program, dbs, argv, queue, cur, tpc, ctxP, tryErr, cleanPc, calls, wrap>>

ValidateMulti ==
  /\ pc = "parse" /\ program = "multi"
  /\ IF YargsValidMulti(argv) /\ CheckMulti(argv)
     THEN pc' = "validated" /\ result' = result
     ELSE pc' = "rejected" /\ result' = Reject
  /\ UNCHANGED <<program, dbs, argv, queue, cur, tpc, ctxP, tryErr, cleanPc, calls, wrap>>

\* ------------------------------------------------------------ apply-scripts: one database's task

\* the argument the database's functions get: the environment in cli.ts, none in part_001
EnvArg == IF program = "cli" THEN <<getEnv(argv)>> ELSE <<>>

\* the environment the Selector is bound to
SelectorEnv == IF program = "cli" THEN getEnv(argv) ELSE argv.env

\* a migrations callback that does not filter
RunnableScriptsAll(env, supportedScriptFormats, matchingFilePaths) ==
  matchingFilePaths

\* matchingFilePaths.filter(shouldRun.bind(null, env, supportedScriptFormats))
RunnableScripts(env, supportedScriptFormats, matchingFilePaths) ==
  SelectSeq(matchingFilePaths,
            LAMBDA f : shouldRun(env, supportedScriptFormats, FilePath(f)))

\* a switch that asks for every pending script whatever the target
EngineRequestAll(target, name) == <<"up">>

\* the switch on target: the request made of the engine
EngineRequest(target, name) ==
  CASE target = "remaining" -> <<"up">>
    [] target = "next"      -> <<"up", "step", "1">>
    [] target = "only"      -> <<"up", "migrations", name>>
    [] target = "until"     -> <<"up", "to", name>>

\* tasks built from the --db flags as given, one per flag
MigrationTasksFlagOrder(optDbs) == optDbs

\* Object.entries(dbs).filter(([dbName, _]) => optDbs.includes(dbName))
MigrationTasks(optDbs) == SelectSeq(DbNames, LAMBDA n : n \in Range(optDbs))

\* the release written after the try block instead of in a finally clause
AfterTryNoFinally(err) == IF err = NoError THEN "destroyContext" ELSE "rejected"

\* try { ... } finally { ... }: where the task goes when the try block is left,
\* with the exception err in flight or none
AfterTry(err) == "destroyContext"

\* the finally block after destroyContext settled: a throw leaves the block
AfterDestroyContext(db, ok) ==
  IF ~ok THEN "rejected"
  ELSE IF db.destroyStorage THEN "destroyStorage"
  ELSE "finished"

\* a finally block whose own exceptions are swallowed
FinallyErrorSwallowed(inFlight, cleanupErr) == inFlight

\* the exception that leaves try/finally: one thrown in the finally block
\* replaces the one in flight
FinallyError(inFlight, cleanupErr) ==
  IF cleanupErr # NoError THEN cleanupErr ELSE inFlight

\* the task's promise rejects; so does the handler's (in part_001, the chain's)
TaskReject(err) ==
  /\ tpc' = "rejected"
  /\ result' = <<"rejected">> \o err

\* the task's promise resolves; the handler's does when no task is left
TaskResolve ==
  /\ tpc' = "resolved"
  /\ result' = IF queue = <<>> THEN <<"resolved">> ELSE result

\* the task up to its first await: Promise.all([db.createContext(env), db.createStorage(env)]).
\* As DatabaseConfig types them, createContext returns a context or a promise of
\* one (it settles later), and createStorage returns the storage synchronously.
StartTask(d) ==
  /\ cur' = d
  /\ tryErr' = NoError
  /\ \E ctxThrows \in BOOLEAN, stoThrows \in BOOLEAN :
       LET c == Ev(d, "createContext", "call", EnvArg)
           s == Ev(d, "createStorage", "call", EnvArg)
       IN  IF ctxThrows
           THEN \* createContext throws synchronously: createStorage is not called
                /\ calls' = calls \o <<c, Ev(d, "createContext", "throw", NoError)>>
                /\ ctxP' = "settled"
                /\ TaskReject(<<d, "createContext">>)
           ELSE IF stoThrows
           THEN \* createStorage throws while createContext's promise is pending
                /\ calls' = calls \o <<c, s, Ev(d, "createStorage", "throw", NoError)>>
                /\ ctxP' = "pending"
                /\ TaskReject(<<d, "createStorage">>)
           ELSE /\ calls' = calls \o <<c, s, Ev(d, "createStorage", "ok", Storage(d))>>
                /\ ctxP' = "pending"
                /\ tpc' = "acquire"
                /\ result' = result

\* cli.ts: the handler runs the task of the one database
ApplyHandler ==
  /\ pc = "validated" /\ program = "cli" /\ argv.cmd = "apply"
  /\ pc' = "handler"
  /\ StartTask(argv.db)
  /\ UNCHANGED <<program, dbs, argv, queue, cleanPc, wrap>>

\* part_001: the handler builds migrationTasks and chains them on Promise.resolve()
ApplyHandlerMulti ==
  /\ pc = "validated" /\ program = "multi" /\ argv.cmd = "apply"
  /\ pc' = "handler"
  /\ queue' = MigrationTasks(argv.db)
  /\ tpc' = "resolved"
  /\ UNCHANGED <<program, dbs, argv, result, cur, ctxP, tryErr, cleanPc, calls, wrap>>

\* a chain that does not wait for the teardown of the task before
ChainReadyEarly == tpc \in {"resolved", "destroyContext", "destroyStorage"}

\* a chain that goes on after a rejected task
ChainReadyAfterFailure == tpc \in {"resolved", "rejected"}

\* a chain that goes on while the task before it destroys its context
ChainReadyInTeardown == tpc \in {"resolved", "destroyContext"}

\* res.then(task): the next task starts once the promise before it has resolved
ChainReady == tpc = "resolved"

NextTask ==
  /\ pc = "handler" /\ program = "multi" /\ argv.cmd = "apply"
  /\ ChainReady
  /\ queue # <<>>
  /\ queue' = Tail(queue)
  /\ StartTask(Head(queue))
  /\ UNCHANGED <<program, dbs, argv, pc, cleanPc, wrap>>

\* a try block that does not await the engine's request
AfterEngineCallNoAwait == "destroyContext"

\* await migrator.up(...): the task waits for the engine's request to settle
AfterEngineCall == "engine"

\* the try block is left: the finally block starts with destroyContext(context)
LeaveTry(log, err) ==
  /\ tryErr' = err
  /\ IF AfterTry(err) = "destroyContext"
     THEN /\ calls' = log \o <<Ev(cur, "destroyContext", "call", Context(cur))>>
          /\ tpc' = "destroyContext"
          /\ result' = result
     ELSE /\ calls' = log
          /\ TaskReject(err)

\* createContext's promise settles; Promise.all settles with it; then new Umzug(...)
\* and, in the try block, the engine call
CreateContextSettle ==
  /\ ctxP = "pending"
  /\ ctxP' = "settled"
  /\ \E ok \in BOOLEAN, constructed \in BOOLEAN :
       LET log == calls \o <<Ev(cur, "createContext", IF ok THEN "ok" ELSE "throw",
                                IF ok THEN Context(cur) ELSE NoError)>>
       IN  IF tpc # "acquire"
           THEN \* the task has rejected already: nobody awaits this promise
                calls' = log /\ UNCHANGED <<tpc, result>>
           ELSE IF ~ok
           THEN calls' = log /\ TaskReject(<<cur, "createContext">>)
           ELSE IF ~constructed
           THEN /\ calls' = log \o <<Ev(cur, "newUmzug", "call", Storage(cur)),
                                     Ev(cur, "newUmzug", "throw", NoError)>>
                /\ TaskReject(<<cur, "newUmzug">>)
           ELSE /\ calls' = log \o <<Ev(cur, "newUmzug", "call", Storage(cur)),
                                     Ev(cur, "newUmzug", "ok", NoError),
                                     Ev(cur, "engine", "call",
                                        EngineRequest(argv.target, argv.name))>>
                /\ tpc' = AfterEngineCall
                /\ result' = result
  /\ UNCHANGED <<program, dbs, argv, pc, queue, cur, tryErr, cleanPc, wrap>>

\* the engine asks for the migrations: the callback globs the scripts directory
EngineDiscover ==
  /\ tpc = "engine"
  /\ tpc' = "glob"
  /\ calls' = calls \o <<Ev(cur, "glob", "call", dbs[cur].supportedScriptFormats)>>
  /\ UNCHANGED <<program, dbs, argv, pc, result, queue, cur, ctxP, tryErr, cleanPc, wrap>>

\* the glob settles: its matches are filtered by the Selector and handed to the
\* engine, or the engine's call rejects with the glob's error
GlobSettle ==
  /\ tpc = "glob"
  /\ \E ok \in BOOLEAN :
       IF ok
       THEN /\ \E directory \in ScriptsDirectories :
                 LET matchingFilePaths ==
                       GlobMatch(dbs[cur].supportedScriptFormats, directory)
                 IN  calls' = calls \o
                       <<Ev(cur, "glob", "ok", matchingFilePaths),
                         Ev(cur, "migrations", "return",
                            RunnableScripts(SelectorEnv,
                                            dbs[cur].supportedScriptFormats,
                                            matchingFilePaths))>>
            /\ tpc' = "running"
            /\ UNCHANGED <<result, tryErr>>
       ELSE LeaveTry(calls \o <<Ev(cur, "glob", "throw", NoError),
                                Ev(cur, "engine", "throw", NoError)>>,
                     <<cur, "glob">>)
  /\ UNCHANGED <<program, dbs, argv, pc, queue, cur, ctxP, cleanPc, wrap>>

\* the engine call settles
EngineSettle ==
  /\ tpc = "running"
  /\ \E ok \in BOOLEAN :
       LeaveTry(calls \o <<Ev(cur, "engine", IF ok THEN "ok" ELSE "throw", NoError)>>,
                IF ok THEN NoError ELSE <<cur, "engine">>)
  /\ UNCHANGED <<program, dbs, argv, pc, queue, cur, ctxP, cleanPc, wrap>>

\* the finally block is left normally: the exception in flight goes on, if any
FinishTask(err) ==
  IF err # NoError THEN TaskReject(err) ELSE TaskResolve

\* await db.destroyContext(context) settles
DestroyContextSettle ==
  /\ tpc = "destroyContext"
  /\ \E ok \in BOOLEAN :
       LET log == calls \o <<Ev(cur, "destroyContext", IF ok THEN "ok" ELSE "throw", NoError)>>
           next == AfterDestroyContext(dbs[cur], ok)
       IN  CASE next = "rejected" ->
                  /\ calls' = log
                  /\ TaskReject(FinallyError(tryErr, <<cur, "destroyContext">>))
             [] next = "destroyStorage" ->
                  /\ calls' = log \o <<Ev(cur, "destroyStorage", "call", Storage(cur))>>
                  /\ tpc' = "destroyStorage"
                  /\ result' = result
             [] next = "finished" ->
                  /\ calls' = log
                  /\ FinishTask(FinallyError(tryErr, NoError))
  /\ UNCHANGED <<program, dbs, argv, pc, queue, cur, ctxP, tryErr, cleanPc, wrap>>

\* await db.destroyStorage?.(storage) settles
DestroyStorageSettle ==
  /\ tpc = "destroyStorage"
  /\ \E ok \in BOOLEAN :
       /\ calls' = calls \o <<Ev(cur, "destroyStorage", IF ok THEN "ok" ELSE "throw", NoError)>>
       /\ FinishTask(FinallyError(tryErr, IF ok THEN NoError ELSE <<cur, "destroyStorage">>))
  /\ UNCHANGED <<program, dbs, argv, pc, queue, cur, ctxP, tryErr, cleanPc, wrap>>

\* ------------------------------------------------------------ clean, drop, create

\* the databases a command works on: the one of cli.ts, the selected ones of part_001
Selected == IF program = "cli" THEN <<argv.db>> ELSE MigrationTasks(argv.db)

\* a fan-out that starts the first selected database only
FanOutFirstOnly(op, pos) ==
  /\ pc' = "handler"
  /\ calls' = calls \o <<Ev(Selected[1], op, "call", EnvArg)>>
  /\ cleanPc' = [d \in DbSet |-> IF d = Selected[1] THEN pos ELSE "idle"]
  /\ UNCHANGED <<program, dbs, argv, result, queue, cur, tpc, ctxP, tryErr, wrap>>

\* each selected database's task runs up to its first await: its first call is made
FanOut(op, pos) ==
  /\ pc' = "handler"
  /\ calls' = calls \o [i \in 1..Len(Selected) |-> Ev(Selected[i], op, "call", EnvArg)]
  /\ cleanPc' = [d \in DbSet |-> IF d \in Range(Selected) THEN pos ELSE "idle"]
  /\ UNCHANGED <<program, dbs, argv, result, queue, cur, tpc, ctxP, tryErr, wrap>>

CleanHandler ==
  /\ pc = "validated" /\ argv.cmd = "clean"
  /\ FanOut("dropDbAndDisconnect", "dropping")

DropHandler ==
  /\ pc = "validated" /\ argv.cmd = "drop"
  /\ FanOut("dropDbAndDisconnect", "dropping")

CreateHandler ==
  /\ pc = "validated" /\ argv.cmd = "create"
  /\ FanOut("prepareDbAndDisconnect", "preparing")

\* a clean whose drop has no .catch
AfterDropNoCatch(cmd, ok) ==
  IF ~ok THEN "failed"
  ELSE IF cmd = "clean" THEN "preparing"
  ELSE "ok"

\* clean: await dropDbAndDisconnect(env).catch(() => {}); drop: await db.dropDbAndDisconnect(env)
AfterDrop(cmd, ok) ==
  IF cmd = "clean" THEN "preparing"
  ELSE IF ok THEN "ok" ELSE "failed"

\* the handler's promise (await, or Promise.all over the tasks) once database d's
\* task is at positions[d]: the first rejection settles it, or the last success
Join(positions, d, op) ==
  IF result # <<"pending">> THEN result
  ELSE IF positions[d] = "failed" THEN <<"rejected", d, op>>
  ELSE IF \A s \in Range(Selected) : positions[s] = "ok" THEN <<"resolved">>
  ELSE result

DropSettle(d) ==
  /\ pc = "handler" /\ cleanPc[d] = "dropping"
  /\ \E ok \in BOOLEAN :
       LET log == calls \o <<Ev(d, "dropDbAndDisconnect", IF ok THEN "ok" ELSE "throw", NoError)>>
           next == AfterDrop(argv.cmd, ok)
           positions == [cleanPc EXCEPT ![d] = next]
       IN  /\ cleanPc' = positions
           /\ calls' = IF next = "preparing"
                       THEN log \o <<Ev(d, "prepareDbAndDisconnect", "call", EnvArg)>>
                       ELSE log
           /\ result' = Join(positions, d, "dropDbAndDisconnect")
  /\ UNCHANGED <<program, dbs, argv, pc, queue, cur, tpc, ctxP, tryErr, wrap>>

PrepareSettle(d) ==
  /\ pc = "handler" /\ cleanPc[d] = "preparing"
  /\ \E ok \in BOOLEAN :
       LET positions == [cleanPc EXCEPT ![d] = IF ok THEN "ok" ELSE "failed"]
       IN  /\ cleanPc' = positions
           /\ calls' = calls \o <<Ev(d, "prepareDbAndDisconnect", IF ok THEN "ok" ELSE "throw", NoError)>>
           /\ result' = Join(positions, d, "prepareDbAndDisconnect")
  /\ UNCHANGED <<program, dbs, argv, pc, queue, cur, tpc, ctxP, tryErr, wrap>>

\* ------------------------------------------------------------ add

\* const env = getEnv({ db, env: envOptValue })
AddEnv(opts) ==
  IF program = "cli" THEN getEnv([db |-> opts.db, env |-> opts.env]) ELSE opts.env

\* a creation request that lets the engine verify the name against the database
CreateOptionsVerify(type, env, name, format) ==
  <<type, env, name, format, "verify">>

\* migrator.create({ name: `${nameScript(type, env, name)}.${format}`,
\* allowExtension, prefix: "TIMESTAMP", skipVerify: true })
CreateOptions(type, env, name, format) ==
  <<type, env, name, format, "skipVerify">>

\* a format that ignores the --format flag
AddFormatDefaultOnly(opts) == dbs[opts.db].defaultScriptFormat

\* formatOptValue ?? defaultScriptFormat
AddFormat(opts) ==
  IF opts.format # Undefined THEN opts.format ELSE dbs[opts.db].defaultScriptFormat

\* the handler up to await migrator.create(...): nameScript(type, env, name) is
\* evaluated for the file's name
AddHandler ==
  /\ pc = "validated" /\ argv.cmd = "add"
  /\ pc' = "handler"
  /\ calls' = calls \o
       <<Ev(argv.db, "nameScript", "eval", <<argv.type, AddEnv(argv), argv.name>>),
         Ev(argv.db, "create", "call",
            CreateOptions(argv.type, AddEnv(argv), argv.name, AddFormat(argv)))>>
  /\ UNCHANGED <<program, dbs, argv, result, queue, cur, tpc, ctxP, tryErr, cleanPc, wrap>>

CreateFileSettle ==
  /\ pc = "handler" /\ argv.cmd = "add" /\ result = <<"pending">>
  /\ \E ok \in BOOLEAN :
       /\ calls' = calls \o <<Ev(argv.db, "create", IF ok THEN "ok" ELSE "throw", NoError)>>
       /\ result' = IF ok THEN <<"resolved">> ELSE <<"rejected", argv.db, "create">>
  /\ UNCHANGED <<program, dbs, argv, pc, queue, cur, tpc, ctxP, tryErr, cleanPc, wrap>>

\* ------------------------------------------------------------ wrapMigration

\* a hook is absent, returns void, or returns a promise
HookKinds == {"absent", "sync", "async"}
\* migration.down: no such member, a member that is undefined, or a function
DownKinds == {"absent", "undefined", "function"}

NotWrapped == "notWrapped"

\* a wrapper that always defines down
WrappedDownAlways(down) == "wrapper"

\* the down member of the object wrapMigration returns: ...migration copies the
\* member, and the wrapper replaces it when migration.down is truthy
WrappedDown(down) == IF down = "function" THEN "wrapper" ELSE down

\* a body that runs the step before runBefore
StepsHookLate(method) == <<method, "runBefore", "runAfter">>

\* the body of the wrapped up / down: the steps, each awaited
Steps(method) == <<"runBefore", method, "runAfter">>

\* how the hook of a step is given; the migration's own up and down return promises
StepKind(w, step) ==
  CASE step = "runBefore" -> w.runBefore
    [] step = "runAfter"  -> w.runAfter
    [] OTHER              -> "async"

\* a body that runs runAfter in a finally clause: after the underlying step (the
\* second) threw, runAfter still follows
StepAfterFinally(i, ok) == IF ok \/ i = 2 THEN i + 1 ELSE 4

\* a body that goes on to the next step although the awaited step threw
StepAfterContinue(i, ok) == i + 1

\* the step that follows step i: the next one, or none (the end) when an await threw
StepAfter(i, ok) == IF ok THEN i + 1 ELSE Len(Steps("up")) + 1

InitWrap ==
  /\ program = "wrap"
  /\ dbs = <<>>
  /\ argv = <<>>
  /\ pc = "wrap"
  /\ result = <<"pending">>
  /\ queue = <<>>
  /\ cur = Undefined
  /\ tpc = "idle"
  /\ ctxP = "none"
  /\ tryErr = NoError
  /\ cleanPc = <<>>
  /\ calls = <<>>
  /\ wrap \in [runBefore : HookKinds, runAfter : HookKinds, down : DownKinds,
               wrappedDown : {NotWrapped}, method : {Undefined}, idx : {0},
               phase : {"idle"}, log : {<<>>}, err : {NoError},
               outcome : {<<"idle">>}, n : {0}]

\* wrapMigration(hooks, migration)
WrapMigration ==
  /\ program = "wrap" /\ wrap.wrappedDown = NotWrapped
  /\ wrap' = [wrap EXCEPT !.wrappedDown = WrappedDown(wrap.down)]
  /\ UNCHANGED <<program, dbs, argv, pc, result, queue, cur, tpc, ctxP, tryErr, cleanPc, calls>>

\* the caller (the engine) calls the wrapped up, or the wrapped down when there is one
CallWrapped ==
  /\ program = "wrap" /\ wrap.wrappedDown # NotWrapped
  /\ wrap.phase \in {"idle", "settled"}
  /\ wrap.n < MaxWrapCalls
  /\ \E m \in {"up", "down"} :
       /\ m = "down" => wrap.wrappedDown = "wrapper"
       /\ wrap' = [wrap EXCEPT !.method = m, !.idx = 1, !.phase = "ready", !.log = <<>>,
                               !.err = NoError, !.outcome = <<"pending">>, !.n = @ + 1]
  /\ UNCHANGED <<program, dbs, argv, pc, result, queue, cur, tpc, ctxP, tryErr, cleanPc, calls>>

\* the wrapped call after step i settled with ok (err: the error of a step that threw)
Advance(w, log, ok) ==
  LET i == StepAfter(w.idx, ok)
      e == IF ~ok /\ w.err = NoError THEN <<Steps(w.method)[w.idx]>> ELSE w.err
  IN  IF i <= Len(Steps(w.method))
      THEN [w EXCEPT !.idx = i, !.phase = "ready", !.log = log, !.err = e]
      ELSE [w EXCEPT !.idx = i, !.phase = "settled", !.log = log, !.err = e,
                     !.outcome = IF e = NoError THEN <<"resolved">> ELSE <<"rejected">> \o e]

\* the wrapped call reaches its next step: hooks.runBefore?.(), migration.up(params), ...
StepStart ==
  /\ program = "wrap" /\ wrap.phase = "ready"
  /\ LET step == Steps(wrap.method)[wrap.idx]
         kind == StepKind(wrap, step)
     IN  CASE kind = "absent" ->
                wrap' = Advance(wrap, wrap.log, TRUE)
           [] kind = "sync" ->
                \E ok \in BOOLEAN :
                  wrap' = Advance(wrap, wrap.log \o <<<<step, "start">>,
                                          <<step, IF ok THEN "ok" ELSE "throw">>>>, ok)
           [] kind = "async" ->
                wrap' = [wrap EXCEPT !.phase = "running", !.log = @ \o <<<<step, "start">>>>]
  /\ UNCHANGED <<program, dbs, argv, pc, result, queue, cur, tpc, ctxP, tryErr, cleanPc, calls>>

\* the promise of the running step settles
StepSettle ==
  /\ program = "wrap" /\ wrap.phase = "running"
  /\ \E ok \in BOOLEAN :
       wrap' = Advance(wrap, wrap.log \o <<<<Steps(wrap.method)[wrap.idx],
                                             IF ok THEN "ok" ELSE "throw">>>>, ok)
  /\ UNCHANGED <<program, dbs, argv, pc, result, queue, cur, tpc, ctxP, tryErr, cleanPc, calls>>

\* ------------------------------------------------------------ specifications

TaskNext ==
  \/ CreateContextSettle
  \/ EngineDiscover
  \/ GlobSettle
  \/ EngineSettle
  \/ DestroyContextSettle
  \/ DestroyStorageSettle

FanOutNext ==
  \/ CleanHandler
  \/ DropHandler
  \/ CreateHandler
  \/ \E d \in DbSet : DropSettle(d)
  \/ \E d \in DbSet : PrepareSettle(d)

Next ==
  \/ Validate
  \/ AddHandler
  \/ CreateFileSettle
  \/ ApplyHandler
  \/ TaskNext
  \/ FanOutNext

NextMulti ==
  \/ ValidateMulti
  \/ AddHandler
  \/ CreateFileSettle
  \/ ApplyHandlerMulti
  \/ NextTask
  \/ TaskNext
  \/ FanOutNext

Spec == Init /\ [][Next]_vars

SpecMulti == InitMulti /\ [][NextMulti]_vars

\* the add command of cli.ts, over configurations whose script formats vary
NextAdd ==
  \/ Validate
  \/ AddHandler
  \/ CreateFileSettle

SpecAdd == InitAdd /\ [][NextAdd]_vars

\* both command lines: the code the two files share is checked for both
InitAll == Init \/ InitMulti

NextAll ==
  \/ Validate
  \/ ValidateMulti
  \/ AddHandler
  \/ CreateFileSettle
  \/ ApplyHandler
  \/ ApplyHandlerMulti
  \/ NextTask
  \/ TaskNext
  \/ FanOutNext

SpecAll == InitAll /\ [][NextAll]_vars

NextWrap ==
  \/ WrapMigration
  \/ CallWrapped
  \/ StepStart
  \/ StepSettle

SpecWrap == InitWrap /\ [][NextWrap]_vars

\* ------------------------------------------------------------ Namer and Selector
\* nameScript and shouldRun applied to drawn inputs: a valid (kind, environment,
\* name), an extension, a target environment and a list of supported formats.

FreeformNames == {"s1", "seed", "demo"}
Extensions == {"js", "sql", "ts"}
Timestamps == {"2020", "2021"}

NamerInputs ==
  { i \in [kind : scriptTypes, environment : Envs \cup {Undefined},
            freeformName : FreeformNames, extension : Extensions,
            targetEnvironment : EnvChoices,
            supportedFormats : {<<"js", "sql">>, <<"sql">>}] :
      i.kind = "migration" <=> i.environment = Undefined }

InitNames ==
  /\ program = "names"
  /\ dbs = <<>>
  /\ argv \in NamerInputs
  /\ InitCommon

\* `${nameScript(type, env, name)}.${format}`
NameScriptCall ==
  /\ program = "names" /\ pc = "parse"
  /\ pc' = "named"
  /\ calls' = <<Ev(Undefined, "nameScript", "return",
                   nameScript(argv.kind, argv.environment, argv.freeformName)
                     \o <<argv.extension>>)>>
  /\ UNCHANGED <<program, dbs, argv, result, queue, cur, tpc, ctxP, tryErr,
                 cleanPc, wrap>>

\* file creation puts a timestamp in the place of the prefix
CreateFile ==
  /\ program = "names" /\ pc = "named"
  /\ pc' = "created"
  /\ \E ts \in Timestamps :
       calls' = calls \o
         <<Ev(Undefined, "create", "ok", <<ts>> \o Tail(calls[Len(calls)].arg))>>
  /\ UNCHANGED <<program, dbs, argv, result, queue, cur, tpc, ctxP, tryErr,
                 cleanPc, wrap>>

\* shouldRun(targetEnvironment, supportedFormats, path) on the name last built
ShouldRunCall ==
  /\ program = "names" /\ pc \in {"named", "created"}
  /\ pc' = "selected"
  /\ LET filePath == calls[Len(calls)].arg
     IN  calls' = calls \o
           <<Ev(Undefined, "shouldRun",
                IF shouldRun(argv.targetEnvironment, argv.supportedFormats, filePath)
                THEN "true" ELSE "false",
                filePath)>>
  /\ UNCHANGED <<program, dbs, argv, result, queue, cur, tpc, ctxP, tryErr,
                 cleanPc, wrap>>

NextNames ==
  \/ NameScriptCall
  \/ CreateFile
  \/ ShouldRunCall

SpecNames == InitNames /\ [][NextNames]_vars

\* ------------------------------------------------------------ claims

\* C1: in an apply over several databases (part_001), the databases are processed
\* one after another: when a call of one database starts, every call made for
\* another database before it has settled, and that other database gets no
\* further call or settling afterwards (its teardown is over).
C1_Sequential ==
  (program = "multi" /\ argv.cmd = "apply") =>
    \A i, j \in 1..Len(calls) :
      (i < j /\ IsCall(calls[i]) /\ IsCall(calls[j]) /\ calls[i].db # calls[j].db) =>
         /\ \E k \in (i + 1)..(j - 1) :
              calls[k].db = calls[i].db /\ calls[k].op = calls[i].op /\ IsSettle(calls[k])
         /\ \A k \in j..Len(calls) : calls[k].db # calls[i].db

C1_Witness ==
  /\ program = "multi" /\ argv.cmd = "apply" /\ argv.target = "remaining"
  /\ SettlesOf("A", "destroyStorage") # {}
  /\ CallsOf("B", "engine") # {}

\* C2: in apply, destroyContext is called at most once per database, with that
\* database's context, only after the engine call settled, and it has been called
\* as soon as the engine call has settled, whether the engine call succeeded or threw.
C2_DestroyContextOnce ==
  \A d \in DbSet :
    LET dc == CallsOf(d, "destroyContext")
        es == SettlesOf(d, "engine")
    IN  /\ Cardinality(dc) <= 1
        /\ \A i \in dc : calls[i].arg = Context(d) /\ \E k \in es : k < i
        /\ es # {} => dc # {}

C2_Witness ==
  /\ program = "multi"
  /\ ThrowsOf("B", "engine") # {}
  /\ SettlesOf("B", "destroyContext") # {}

\* C3: in apply, when the engine call threw and the release (destroyContext or
\* destroyStorage) threw too, the handler rejects with the engine call's error.
C3_OriginalErrorPropagates ==
  \A d \in DbSet :
    ( /\ ThrowsOf(d, "engine") # {}
      /\ ThrowsOf(d, "destroyContext") \cup ThrowsOf(d, "destroyStorage") # {}
      /\ tpc = "rejected" /\ cur = d )
    => result = <<"rejected">> \o tryErr

\* C4: in apply, for a database that defines destroyStorage, once the engine call
\* was started (the resources are acquired) and the task has ended, destroyStorage
\* has been called with the database's storage.
C4_DestroyStorageAlways ==
  \A d \in DbSet :
    ( /\ dbs[d].destroyStorage
      /\ CallsOf(d, "engine") # {}
      /\ cur = d /\ tpc \in {"resolved", "rejected"} )
    => \E i \in CallsOf(d, "destroyStorage") : calls[i].arg = Storage(d)

\* how often an entry occurs in a log
Count(log, e) == Cardinality({i \in 1..Len(log) : log[i] = e})

HookCount(kind) == IF kind = "absent" THEN 0 ELSE 1

\* C5: for a wrapped migration, when the underlying up (or down) threw, runBefore
\* was invoked exactly once (when given), runAfter is never invoked for that call,
\* and the call rejects with the underlying step's error.
C5_NoRunAfterOnFailure ==
  (program = "wrap" /\ wrap.method # Undefined /\ Count(wrap.log, <<wrap.method, "throw">>) > 0) =>
    /\ Count(wrap.log, <<"runBefore", "start">>) = HookCount(wrap.runBefore)
    /\ Count(wrap.log, <<"runAfter", "start">>) = 0
    /\ wrap.phase = "settled"
    /\ wrap.outcome = <<"rejected", wrap.method>>

C5_Witness ==
  /\ program = "wrap" /\ wrap.method = "up"
  /\ wrap.runBefore = "async" /\ wrap.runAfter = "async"
  /\ Count(wrap.log, <<"up", "throw">>) = 1
  /\ wrap.phase = "settled"

\* the calls of a wrapped method all of whose steps succeed: the hooks that are
\* given and the underlying step, each started and completed, in the order
\* runBefore, the step, runAfter
PresentSteps(w) ==
  (IF w.runBefore = "absent" THEN <<>> ELSE <<"runBefore">>)
  \o <<w.method>>
  \o (IF w.runAfter = "absent" THEN <<>> ELSE <<"runAfter">>)

ExpectedLog(w) ==
  LET p == PresentSteps(w)
  IN  [i \in 1..(2 * Len(p)) |->
         <<p[(i + 1) \div 2], IF i % 2 = 1 THEN "start" ELSE "ok">>]

IsPrefix(a, b) == Len(a) <= Len(b) /\ \A i \in 1..Len(a) : a[i] = b[i]

NoThrow(log) == \A i \in 1..Len(log) : log[i][2] # "throw"

\* C6: for a wrapped migration, while no step has thrown the log of a call is a
\* prefix of: runBefore started, completed, the underlying step started, completed,
\* runAfter started, completed (no step starts before the one before it has
\* completed, whether the hooks are synchronous or asynchronous); a call that
\* resolves has run exactly that sequence.
C6_HooksInOrder ==
  (program = "wrap" /\ wrap.method # Undefined) =>
    /\ NoThrow(wrap.log) => IsPrefix(wrap.log, ExpectedLog(wrap))
    /\ wrap.outcome = <<"resolved">> => wrap.log = ExpectedLog(wrap)

C6_Witness ==
  /\ program = "wrap" /\ wrap.method = "down"
  /\ wrap.runBefore = "async" /\ wrap.runAfter = "async"
  /\ wrap.outcome = <<"resolved">>
  /\ Len(wrap.log) = 6

\* C7: the object wrapMigration returns has a down member exactly when the
\* migration has one, and a callable down exactly when the migration's is callable,
\* whatever hooks are given.
C7_CapabilityPreserved ==
  (program = "wrap" /\ wrap.wrappedDown # NotWrapped) =>
    /\ (wrap.wrappedDown # "absent") <=> (wrap.down # "absent")
    /\ (wrap.wrappedDown = "wrapper") <=> (wrap.down = "function")

C7_Witness ==
  /\ program = "wrap"
  /\ wrap.runBefore # "absent" /\ wrap.runAfter # "absent"
  /\ wrap.down = "absent" /\ wrap.wrappedDown = "absent"

\* C8: in clean, for each database, prepareDbAndDisconnect is called exactly once
\* as soon as dropDbAndDisconnect has settled (succeeded or thrown) and never
\* before; the handler never rejects with a drop error; and the database's task
\* succeeds exactly when prepareDbAndDisconnect succeeded and fails exactly when
\* it threw.
C8_CleanOutcome ==
  argv.cmd = "clean" =>
    \A d \in DbSet :
      LET ds == SettlesOf(d, "dropDbAndDisconnect")
          pcs == CallsOf(d, "prepareDbAndDisconnect")
      IN  /\ ds # {} => Cardinality(pcs) = 1
          /\ \A i \in pcs : \E k \in ds : k < i
          /\ result # <<"rejected", d, "dropDbAndDisconnect">>
          /\ cleanPc[d] = "ok" <=> OksOf(d, "prepareDbAndDisconnect") # {}
          /\ cleanPc[d] = "failed" <=> ThrowsOf(d, "prepareDbAndDisconnect") # {}

C8_Witness ==
  /\ argv.cmd = "clean"
  /\ ThrowsOf("A", "dropDbAndDisconnect") # {}
  /\ cleanPc["A"] = "ok"
  /\ result = <<"resolved">>

\* the environment a command line of cli.ts resolves to: the --env flag, else the
\* database's defaultEnvironment
ResolvedEnv == IF argv.env # Undefined THEN argv.env ELSE dbs[argv.db].defaultEnvironment

ResolvedEnvSupported ==
  \E i \in 1..Len(dbs[argv.db].supportedEnvironments) :
    dbs[argv.db].supportedEnvironments[i] = ResolvedEnv

C10_NameScriptEnvironment ==
  \A i \in 1..Len(calls) :
    calls[i].op = "nameScript" =>
      /\ calls[i].arg[1] = "migration" => calls[i].arg[2] = Undefined
      /\ calls[i].arg[1] = "seed" =>
           \E k \in 1..Len(dbs[calls[i].db].supportedEnvironments) :
             dbs[calls[i].db].supportedEnvironments[k] = calls[i].arg[2]

\* C11: in cli.ts, add is rejected in validation, before the file-creation call,
\* when type is seed and no --env is given, when type is migration and --env is
\* given, when the --env given is not one of the database's
\* supportedEnvironments, or when the --format given is not one of the
\* database's supportedScriptFormats.
C11_AddBadArgs ==
  \/ argv.type = "seed" /\ argv.env = Undefined
  \/ argv.type = "migration" /\ argv.env # Undefined
  \/ /\ argv.env # Undefined
     /\ \A i \in 1..Len(dbs[argv.db].supportedEnvironments) :
          dbs[argv.db].supportedEnvironments[i] # argv.env
  \/ /\ argv.format # Undefined
     /\ \A i \in 1..Len(dbs[argv.db].supportedScriptFormats) :
          dbs[argv.db].supportedScriptFormats[i] # argv.format

C12_Env == IF program = "cli" THEN ResolvedEnv ELSE argv.env

C12_HandedExactlyEligible ==
  \A i \in 1..Len(calls) :
    calls[i].op = "migrations" =>
      LET found  == calls[i - 1].arg
          handed == calls[i].arg
          formats == dbs[calls[i].db].supportedScriptFormats
      IN  /\ calls[i - 1].op = "glob" /\ calls[i - 1].ev = "ok"
          /\ calls[i - 1].db = calls[i].db
          /\ Range(handed) =
               {f \in Range(found) : shouldRun(C12_Env, formats, FilePath(f))}
          /\ \A f \in Range(handed) :
               FilePath(f)[2] = "seed" => FilePath(f)[3] = C12_Env
          /\ \A f \in Range(found) :
               FilePath(f)[2] = "seed" /\ FilePath(f)[3] = C12_Env =>
                 f \in Range(handed)
          /\ "m1" \in Range(found) => "m1" \in Range(handed)

C12_Witness ==
  \E i \in 1..Len(calls) :
    /\ calls[i].op = "migrations"
    /\ calls[i - 1].arg = <<"m1", "seedStaging", "seedDemo", "readme">>
    /\ calls[i].arg = <<"m1", "seedStaging">>

\* C13: round trip between Namer and Selector.  For a file name built by
\* nameScript with an extension among the supported formats, shouldRun is true
\* for a migration under every target environment and, for a seed, true exactly
\* when the environment given to nameScript is the target environment; with an
\* extension outside the supported formats it is false.
C13_ExtensionSupported ==
  \E i \in 1..Len(argv.supportedFormats) : argv.supportedFormats[i] = argv.extension

C13_RoundTrip ==
  \A i \in 1..Len(calls) :
    (program = "names" /\ calls[i].op = "shouldRun") =>
      /\ ~C13_ExtensionSupported => calls[i].ev = "false"
      /\ (C13_ExtensionSupported /\ argv.kind = "migration") => calls[i].ev = "true"
      /\ (C13_ExtensionSupported /\ argv.kind = "seed") =>
           (calls[i].ev = "true" <=> argv.environment = argv.targetEnvironment)

C13_Witness ==
  /\ program = "names" /\ pc = "selected"
  /\ argv.kind = "seed" /\ argv.environment = "demo"
  /\ argv.targetEnvironment = "staging" /\ argv.freeformName = "seed"
  /\ C13_ExtensionSupported
  /\ calls[Len(calls)].op = "shouldRun" /\ calls[Len(calls)].ev = "false"
  /\ calls[Len(calls) - 1].op = "create"

\* C14: clean, drop and create over several databases (part_001) run the
\* databases concurrently: every selected database's first call is made before
\* any call settles, a failure of one database leaves the other's task able to
\* go on, and each later call of a database is made once its earlier call has
\* settled, whatever became of the other database.
C14_FirstOp == IF argv.cmd = "create" THEN "prepareDbAndDisconnect" ELSE "dropDbAndDisconnect"

C14_FanOutIndependent ==
  (program = "multi" /\ argv.cmd \in {"clean", "drop", "create"} /\ pc = "handler") =>
    \A d \in DbSet :
      (\E k \in 1..Len(argv.db) : argv.db[k] = d) =>
        /\ Cardinality(CallsOf(d, C14_FirstOp)) = 1
        /\ \A i \in CallsOf(d, C14_FirstOp) : \A k \in 1..i : IsCall(calls[k])
        /\ cleanPc[d] \in {"dropping", "preparing", "ok", "failed"}
        /\ cleanPc[d] = "dropping" => ENABLED DropSettle(d)
        /\ cleanPc[d] = "preparing" => ENABLED PrepareSettle(d)
        /\ (argv.cmd = "clean" /\ SettlesOf(d, "dropDbAndDisconnect") # {}) =>
             Cardinality(CallsOf(d, "prepareDbAndDisconnect")) = 1

C14_Witness ==
  /\ program = "multi" /\ argv.cmd = "clean"
  /\ result = <<"rejected", "A", "prepareDbAndDisconnect">>
  /\ \E i \in ThrowsOf("A", "prepareDbAndDisconnect") :
       /\ \E k \in CallsOf("B", "prepareDbAndDisconnect") : i < k
       /\ \E k \in OksOf("B", "prepareDbAndDisconnect") : i < k

\* C15: in an apply over several databases (part_001), when a database's task
\* fails by an error of the engine or of the teardown, the teardown of that
\* database has been attempted, no call is made for any other database from
\* then on, and the command is rejected with the error the task failed with: the
\* teardown's error when the teardown threw, the engine's otherwise.
C15_FailureOps == {"engine", "destroyContext", "destroyStorage"}

C15_Failed(d) == \E op \in C15_FailureOps : ThrowsOf(d, op) # {}

C15_FailureEndsChain ==
  (program = "multi" /\ argv.cmd = "apply") =>
    \A d \in DbSet :
      C15_Failed(d) =>
        /\ CallsOf(d, "destroyContext") # {}
        /\ \A op \in C15_FailureOps : \A i \in ThrowsOf(d, op) :
             \A k \in i..Len(calls) : calls[k].db = d
        /\ \A q \in 1..Len(queue) : \A k \in 1..Len(calls) : calls[k].db # queue[q]
        /\ tpc \in {"destroyContext", "destroyStorage", "rejected"}
        /\ tpc = "rejected" =>
             /\ result[1] = "rejected" /\ result[2] = d
             /\ IF ThrowsOf(d, "destroyContext") # {} THEN result[3] = "destroyContext"
                ELSE IF ThrowsOf(d, "destroyStorage") # {} THEN result[3] = "destroyStorage"
                ELSE result[3] \in {"engine", "glob"}

C15_Witness ==
  /\ program = "multi" /\ argv.cmd = "apply"
  /\ tpc = "rejected" /\ cur = "A" /\ queue = <<"B">>
  /\ ThrowsOf("A", "engine") # {}
  /\ OksOf("A", "destroyContext") # {}
  /\ result = <<"rejected", "A", "engine">>

\* C16: apply is rejected in validation, before its handler runs, exactly when a
\* script name is given with target remaining or next, or no script name is given
\* with target only or until; every other combination of target and name passes
\* this check, so that a rejection of it has another cause (the environment).
C16_NameGiven == argv.name # Undefined /\ argv.name # ""

C16_BadCombination ==
  \/ argv.target \in {"remaining", "next"} /\ C16_NameGiven
  \/ argv.target \in {"only", "until"} /\ ~C16_NameGiven

C16_OtherRejection ==
  program = "cli" /\ (argv.env = Undefined \/ ~ResolvedEnvSupported)

C16_TargetNameValidation ==
  argv.cmd = "apply" =>
    /\ C16_BadCombination => (pc \in {"parse", "rejected"} /\ calls = <<>>)
    /\ (~C16_BadCombination /\ ~C16_OtherRejection) => pc # "rejected"

C16_Witness ==
  /\ program = "multi" /\ argv.cmd = "apply" /\ pc = "rejected"
  /\ argv.target = "until" /\ argv.name = Undefined

C16_WitnessAccepted ==
  /\ program = "cli" /\ argv.cmd = "apply" /\ pc = "handler"
  /\ argv.target = "remaining" /\ argv.name = ""

\* C17: in apply, one engine request is made for each database whose engine was
\* constructed, none for any other, and the request is the target mode's:
\* remaining asks for all pending scripts, next for one step, only for the named
\* script alone, until for everything up to the named script.
C17_Request ==
  IF argv.target = "remaining" THEN <<"up">>
  ELSE IF argv.target = "next" THEN <<"up", "step", "1">>
  ELSE IF argv.target = "only" THEN <<"up", "migrations", argv.name>>
  ELSE <<"up", "to", argv.name>>

C17_OneEngineRequest ==
  argv.cmd = "apply" =>
    \A d \in DbSet :
      /\ Cardinality(CallsOf(d, "engine")) =
           (IF OksOf(d, "newUmzug") # {} THEN 1 ELSE 0)
      /\ \A i \in CallsOf(d, "engine") : calls[i].arg = C17_Request
      /\ CallsOf(d, "destroyContext") # {} => Cardinality(CallsOf(d, "engine")) = 1
      /\ Cardinality(SettlesOf(d, "engine")) <= 1

C17_Witness ==
  /\ argv.cmd = "apply" /\ argv.target = "until" /\ result = <<"resolved">>
  /\ \E i \in CallsOf("A", "engine") : calls[i].arg = <<"up", "to", "s1">>
  /\ OksOf("A", "engine") # {}

\* C18: the add command calls no createContext, createStorage, destroyContext,
\* destroyStorage, dropDbAndDisconnect or prepareDbAndDisconnect of any database
\* and asks the engine to skip its verification of already-applied scripts: the
\* one request it makes is the file creation.
C18_AddOnlyCreatesFile ==
  argv.cmd = "add" =>
    /\ \A i \in 1..Len(calls) :
         /\ calls[i].op \in {"nameScript", "create"}
         /\ (calls[i].op = "create" /\ calls[i].ev = "call") =>
              calls[i].arg[Len(calls[i].arg)] = "skipVerify"
    /\ Cardinality({i \in 1..Len(calls) : calls[i].op = "create" /\ calls[i].ev = "call"})
         = (IF pc = "handler" THEN 1 ELSE 0)
    /\ tpc = "idle" /\ ctxP = "none" /\ \A d \in DbSet : cleanPc[d] = "idle"

C18_Witness ==
  /\ program = "multi" /\ argv.cmd = "add" /\ result = <<"resolved">>
  /\ \E i \in 1..Len(calls) : calls[i].op = "create" /\ calls[i].ev = "ok"

\* C19 (as stated): when add is invoked without --format, the extension of the
\* created file is the database's declared default format, and the first entry
\* of supportedScriptFormats when the database declares no default; when
\* --format is given, the extension is that format.
C19_CreateCalls == {i \in 1..Len(calls) : calls[i].op = "create" /\ calls[i].ev = "call"}

C19_ExtensionWithFallback ==
  argv.cmd = "add" =>
    \A i \in C19_CreateCalls :
      calls[i].arg[4] =
        (IF argv.format # Undefined THEN argv.format
         ELSE IF dbs[argv.db].defaultScriptFormat # Undefined
              THEN dbs[argv.db].defaultScriptFormat
         ELSE dbs[argv.db].supportedScriptFormats[1])

\* C19 (amended): when add is invoked without --format, the extension of the
\* created file is the database's defaultScriptFormat, be it the first entry of
\* supportedScriptFormats or not, and the undefined value when the configuration
\* declares none; when --format is given, the extension is that format.
C19_ExtensionIsFormatOrDefault ==
  argv.cmd = "add" =>
    \A i \in C19_CreateCalls :
      /\ argv.format # Undefined => calls[i].arg[4] = argv.format
      /\ argv.format = Undefined => calls[i].arg[4] = dbs[argv.db].defaultScriptFormat

C19_Witness ==
  /\ argv.cmd = "add" /\ argv.format = Undefined /\ argv.db = "A"
  /\ dbs["A"].supportedScriptFormats = <<"js", "sql">>
  /\ dbs["A"].defaultScriptFormat = "sql"
  /\ \E i \in C19_CreateCalls : calls[i].arg[4] = "sql"

\* C20: every context that createContext successfully returns during apply is
\* passed to destroyContext exactly once before the database's task ends, on
\* every path, those where createStorage fails or the engine cannot be
\* constructed included.
C20_ContextAlwaysDestroyed ==
  argv.cmd = "apply" =>
    \A d \in DbSet :
      (cur = d /\ tpc \in {"resolved", "rejected"} /\ OksOf(d, "createContext") # {}) =>
        /\ Cardinality(CallsOf(d, "destroyContext")) = 1
        /\ \A i \in CallsOf(d, "destroyContext") : calls[i].arg = Context(d)

\* C21: within one database's apply run the phases do not overlap: the engine is
\* constructed, called and discovers the scripts only after createContext and
\* createStorage have both completed, and destroyContext and destroyStorage
\* start only after the engine call, and the discovery inside it, have settled.
C21_Before(d, op, i) == \E k \in SettlesOf(d, op) : k < i

C21_PhasesInOrder ==
  argv.cmd = "apply" =>
    \A i \in 1..Len(calls) :
      LET d == calls[i].db
      IN  /\ calls[i].op \in {"newUmzug", "engine", "glob", "migrations"} =>
               /\ \E k \in OksOf(d, "createContext") : k < i
               /\ \E k \in OksOf(d, "createStorage") : k < i
          /\ calls[i].op \in {"destroyContext", "destroyStorage"} =>
               /\ C21_Before(d, "engine", i)
               /\ \A g \in CallsOf(d, "glob") : C21_Before(d, "glob", i)
          /\ (calls[i].op = "destroyStorage" /\ IsCall(calls[i])) =>
               C21_Before(d, "destroyContext", i)

C21_Witness ==
  /\ program = "cli" /\ argv.cmd = "apply" /\ result = <<"resolved">>
  /\ OksOf("A", "glob") # {}
  /\ OksOf("A", "engine") # {}
  /\ OksOf("A", "destroyStorage") # {}

\* C22: for a wrapped migration, when runBefore threw, the underlying up (or
\* down) is never started, runAfter is not invoked, and the wrapped call rejects
\* with runBefore's error.
C22_RunBeforeFailureStopsCall ==
  (program = "wrap" /\ wrap.method # Undefined
     /\ \E i \in 1..Len(wrap.log) : wrap.log[i] = <<"runBefore", "throw">>) =>
    /\ \A i \in 1..Len(wrap.log) : wrap.log[i][1] = "runBefore"
    /\ wrap.phase = "settled"
    /\ wrap.outcome = <<"rejected", "runBefore">>

C22_Witness ==
  /\ program = "wrap" /\ wrap.method = "down"
  /\ wrap.runBefore = "sync" /\ wrap.runAfter = "async"
  /\ wrap.log = <<<<"runBefore", "start">>, <<"runBefore", "throw">>>>
  /\ wrap.outcome = <<"rejected", "runBefore">>

\* C23: in apply, when the engine call succeeded but destroyContext (or
\* destroyStorage) threw, the database's task fails with the teardown's error, so
\* the command is rejected although the engine's request succeeded; in the
\* multi-database form no later database is processed.
C23_TeardownOps == {"destroyContext", "destroyStorage"}

C23_TeardownFailureFailsCommand ==
  argv.cmd = "apply" =>
    \A d \in DbSet : \A op \in C23_TeardownOps :
      (OksOf(d, "engine") # {} /\ ThrowsOf(d, op) # {}) =>
        /\ cur = d /\ tpc = "rejected"
        /\ result = <<"rejected", d, op>>
        /\ \A i \in ThrowsOf(d, op) : \A k \in i..Len(calls) : calls[k].db = d
        /\ \A q \in 1..Len(queue) : \A k \in 1..Len(calls) : calls[k].db # queue[q]

C23_Witness ==
  /\ program = "multi" /\ argv.cmd = "apply"
  /\ OksOf("A", "engine") # {}
  /\ ThrowsOf("A", "destroyStorage") # {}
  /\ queue = <<"B">>
  /\ result = <<"rejected", "A", "destroyStorage">>

\* a context or storage is live once its creation has returned and until its
\* destruction has completed
C24_LiveContext(d) == OksOf(d, "createContext") # {} /\ OksOf(d, "destroyContext") = {}

C24_LiveStorage(d) == OksOf(d, "createStorage") # {} /\ OksOf(d, "destroyStorage") = {}

\* C24 (as stated): at every moment of a multi-database apply, at most one
\* database has a live context or storage (created and not yet destroyed).
C24_OneLiveContextOrStorage ==
  (program = "multi" /\ argv.cmd = "apply") =>
    Cardinality({d \in DbSet : C24_LiveContext(d) \/ C24_LiveStorage(d)}) <= 1

\* C24 (amended): at every moment of a multi-database apply, at most one
\* database has a live context, or a live storage that its configuration can
\* destroy (it defines destroyStorage): a context of database A and a context of
\* database B never exist at the same time.  The storage of a database without
\* destroyStorage is never destroyed and outlives its task.
C24_OneLiveContext ==
  (program = "multi" /\ argv.cmd = "apply") =>
    /\ Cardinality({d \in DbSet :
                      \/ C24_LiveContext(d)
                      \/ dbs[d].destroyStorage /\ C24_LiveStorage(d)}) <= 1
    /\ \A d \in DbSet :
         (cur # d /\ OksOf(d, "createStorage") # {} /\ ~dbs[d].destroyStorage) =>
           C24_LiveStorage(d)

C24_Witness ==
  /\ program = "multi" /\ argv.cmd = "apply"
  /\ dbs["A"].destroyStorage
  /\ OksOf("A", "destroyContext") # {} /\ OksOf("A", "destroyStorage") # {}
  /\ C24_LiveContext("B") /\ C24_LiveStorage("B")

\* the place of a database in the configuration map
C25_ConfigIndex(d) == CHOOSE n \in 1..Len(DbNames) : DbNames[n] = d

C25_SelectedDb(d) == \E k \in 1..Len(argv.db) : argv.db[k] = d

\* C25: in a multi-database apply, the selected databases are processed in the
\* order of the configuration map and each at most once, whatever the order or
\* repetition of the --db flags; a command that resolved has processed each
\* selected database exactly once (a failed task ends the chain, C15); a
\* configured database that is not selected gets no call.
C25_ConfigOrderOnce ==
  (program = "multi" /\ argv.cmd = "apply") =>
    /\ \A i \in 1..Len(calls) : C25_SelectedDb(calls[i].db)
    /\ \A i, j \in 1..Len(calls) :
         i < j => C25_ConfigIndex(calls[i].db) <= C25_ConfigIndex(calls[j].db)
    /\ \A d \in DbSet :
         /\ Cardinality(CallsOf(d, "createContext")) <= 1
         /\ Cardinality(CallsOf(d, "engine")) <= 1
         /\ (result = <<"resolved">> /\ C25_SelectedDb(d)) =>
              /\ Cardinality(CallsOf(d, "createContext")) = 1
              /\ Cardinality(OksOf(d, "engine")) = 1

C25_Witness ==
  /\ program = "multi" /\ argv.cmd = "apply"
  /\ argv.db = <<"B", "A">>
  /\ result = <<"resolved">>
  /\ \E i \in OksOf("A", "destroyContext") : \E j \in CallsOf("B", "createContext") : i < j

C25_WitnessRepeated ==
  /\ program = "multi" /\ argv.cmd = "apply"
  /\ argv.db = <<"A", "A">>
  /\ result = <<"resolved">>

====
